---- MODULE Spec2Model ----
(***************************************************************************)
(* Model of the OCR service's document understanding pipeline:             *)
(*   utils/image_utils.py       correct_orientation, resize_image          *)
(*   services/ocr_engine.py     OCREngine.extract_with_confidence          *)
(*   services/document_classifier.py   DocumentClassifier.classify         *)
(*   services/document_parser.py       DocumentParser.parse                *)
(*   app.py                     process_document                           *)
(*                                                                         *)
(* Text is a TLA+ string, read character by character; the regular         *)
(* expressions of the source are sequences of quantified character         *)
(* classes matched greedily with backtracking, as Python's re does.        *)
(***************************************************************************)
EXTENDS Integers, Sequences, FiniteSets, TLC

(***************************************************************************)
(* Optional values: Python's None is the empty tuple, a value v is <<v>>.  *)
(***************************************************************************)
None == <<>>
Some(v) == <<v>>

(***************************************************************************)
(* Characters and strings.                                                 *)
(***************************************************************************)
Ch(s, i) == SubSeq(s, i, i)

Digit == {"0", "1", "2", "3", "4", "5", "6", "7", "8", "9"}

DigitVal(c) ==
    CASE c = "0" -> 0 [] c = "1" -> 1 [] c = "2" -> 2 [] c = "3" -> 3
      [] c = "4" -> 4 [] c = "5" -> 5 [] c = "6" -> 6 [] c = "7" -> 7
      [] c = "8" -> 8 [] c = "9" -> 9

\* Python's \s for the characters the model uses
Space == {" ", "\n", "\t"}

UpperLetters == "ABCDEFGHIJKLMNOPQRSTUVWXYZ"
LowerLetters == "abcdefghijklmnopqrstuvwxyz"

IndexIn(letters, c) ==
    IF \E i \in 1..Len(letters) : Ch(letters, i) = c
    THEN CHOOSE i \in 1..Len(letters) : Ch(letters, i) = c
    ELSE 0

LowerMap ==
    [c \in {Ch(UpperLetters, i) : i \in 1..Len(UpperLetters)} |->
        Ch(LowerLetters, IndexIn(UpperLetters, c))]

UpperMap ==
    [c \in {Ch(LowerLetters, i) : i \in 1..Len(LowerLetters)} |->
        Ch(UpperLetters, IndexIn(LowerLetters, c))]

LowerCh(c) == IF c \in DOMAIN LowerMap THEN LowerMap[c] ELSE c

UpperCh(c) == IF c \in DOMAIN UpperMap THEN UpperMap[c] ELSE c

RECURSIVE lower(_)
\* str.lower(), the two halves of the string converted in turn
lower(s) ==
    IF s = "" THEN ""
    ELSE IF Len(s) = 1 THEN LowerCh(s)
    ELSE lower(SubSeq(s, 1, Len(s) \div 2)) \o lower(SubSeq(s, Len(s) \div 2 + 1, Len(s)))

RECURSIVE upper(_)
\* str.upper(), the two halves of the string converted in turn
upper(s) ==
    IF s = "" THEN ""
    ELSE IF Len(s) = 1 THEN UpperCh(s)
    ELSE upper(SubSeq(s, 1, Len(s) \div 2)) \o upper(SubSeq(s, Len(s) \div 2 + 1, Len(s)))

RECURSIVE lstrip(_)
lstrip(s) == IF s # "" /\ Ch(s, 1) \in Space THEN lstrip(SubSeq(s, 2, Len(s))) ELSE s

RECURSIVE rstrip(_)
rstrip(s) ==
    IF s # "" /\ Ch(s, Len(s)) \in Space THEN rstrip(SubSeq(s, 1, Len(s) - 1)) ELSE s

\* str.strip()
strip(s) == rstrip(lstrip(s))

RECURSIVE replace(_, _, _)
\* str.replace(old, new) for a one-character old
replace(s, old, new) ==
    IF s = "" THEN ""
    ELSE (IF Ch(s, 1) = old THEN new ELSE Ch(s, 1)) \o replace(SubSeq(s, 2, Len(s)), old, new)

\* needle in haystack
Contains(haystack, needle) ==
    \E i \in 1..(Len(haystack) - Len(needle) + 1) :
        SubSeq(haystack, i, i + Len(needle) - 1) = needle

(***************************************************************************)
(* Regular expressions: a pattern is a sequence of items, each a character *)
(* class with a repetition range (max = -1: unbounded), and one capture    *)
(* group spanning the items g1..g2.                                        *)
(***************************************************************************)
Lit(c) == [cls |-> {c}, min |-> 1, max |-> 1]
Opt(S) == [cls |-> S, min |-> 0, max |-> 1]
Star(S) == [cls |-> S, min |-> 0, max |-> -1]
Plus(S) == [cls |-> S, min |-> 1, max |-> -1]
Rep(S, lo, hi) == [cls |-> S, min |-> lo, max |-> hi]
Word(s) == [i \in 1..Len(s) |-> Lit(Ch(s, i))]
Pattern(items, g1, g2) == [items |-> items, g1 |-> g1, g2 |-> g2]

CharMatches(c, cls, icase) ==
    c \in cls \/ (icase /\ (LowerCh(c) \in cls \/ UpperCh(c) \in cls))

RECURSIVE RunLen(_, _, _, _, _)
\* the number of consecutive characters of the class from pos, at most cap
RunLen(text, pos, cls, cap, icase) ==
    IF pos > Len(text) \/ cap = 0 \/ ~CharMatches(Ch(text, pos), cls, icase)
    THEN 0
    ELSE 1 + RunLen(text, pos + 1, cls, cap - 1, icase)

Fail == <<-1>>

RECURSIVE MatchItems(_, _, _, _, _)
RECURSIVE TryCount(_, _, _, _, _, _)
\* the position after each of the items k.. when matched from pos, or Fail
MatchItems(items, k, text, pos, icase) ==
    IF k > Len(items) THEN <<>>
    ELSE LET n == RunLen(text, pos, items[k].cls, items[k].max, icase)
         IN  IF n < items[k].min THEN Fail
             ELSE TryCount(items, k, text, pos, n, icase)

\* greedy: the longest repetition first, one fewer on each backtrack
TryCount(items, k, text, pos, c, icase) ==
    LET rest == MatchItems(items, k + 1, text, pos + c, icase)
    IN  IF rest # Fail THEN <<pos + c>> \o rest
        ELSE IF c > items[k].min THEN TryCount(items, k, text, pos, c - 1, icase)
        ELSE Fail

NoMatch == [matched |-> FALSE]

RECURSIVE FirstMatchIn(_, _, _, _, _)
\* the first position of lo..hi from which the items match, 0 when there is
\* none: the positions are tried from left to right, the range halved
FirstMatchIn(items, text, lo, hi, icase) ==
    IF lo > hi THEN 0
    ELSE IF lo = hi
    THEN (IF MatchItems(items, 1, text, lo, icase) # Fail THEN lo ELSE 0)
    ELSE LET left == FirstMatchIn(items, text, lo, (lo + hi) \div 2, icase)
         IN  IF left # 0 THEN left
             ELSE FirstMatchIn(items, text, (lo + hi) \div 2 + 1, hi, icase)

\* the match object of a match from p whose items end at the positions e
Match(re, text, p, e) ==
    [matched |-> TRUE, start |-> p, end |-> e[Len(e)],
     group |-> SubSeq(text, IF re.g1 = 1 THEN p ELSE e[re.g1 - 1], e[re.g2] - 1)]

\* the match from p, the first position at which the pattern matches; p = 0: none
MatchAt(re, text, p, icase) ==
    IF p = 0 THEN NoMatch ELSE Match(re, text, p, MatchItems(re.items, 1, text, p, icase))

\* the leftmost match starting at s or later
SearchFrom(re, text, s, icase) ==
    MatchAt(re, text, FirstMatchIn(re.items, text, s, Len(text) + 1, icase), icase)

\* re.search(pattern, text, flags)
re_search(re, text, icase) == SearchFrom(re, text, 1, icase)

RECURSIVE FindAllFrom(_, _, _)
RECURSIVE FindAllAfter(_, _, _)
\* the group of the match m followed by those of the matches after it
FindAllAfter(re, text, m) ==
    IF ~m.matched THEN <<>>
    ELSE <<m.group>>
         \o FindAllFrom(re, text, IF m.end > m.start THEN m.end ELSE m.start + 1)

FindAllFrom(re, text, s) == FindAllAfter(re, text, SearchFrom(re, text, s, FALSE))

\* re.findall(pattern, text): the captured group of each non-overlapping match
re_findall(re, text) == FindAllFrom(re, text, 1)

(***************************************************************************)
(* Floats: the decimal numbers float() reads from the captured strings,    *)
(* kept exactly as mant / 10^scale with trailing zero decimals removed, so *)
(* that equal numbers are equal values (the captured strings are far       *)
(* shorter than the 15 digits a double holds exactly).                     *)
(***************************************************************************)
RECURSIVE Dec(_, _)
Dec(mant, scale) ==
    IF scale > 0 /\ mant % 10 = 0 THEN Dec(mant \div 10, scale - 1)
    ELSE [mant |-> mant, scale |-> scale]

RECURSIVE Pow10(_)
Pow10(n) == IF n = 0 THEN 1 ELSE 10 * Pow10(n - 1)

FloatLess(a, b) == a.mant * Pow10(b.scale) < b.mant * Pow10(a.scale)

IsPositive(a) == a.mant > 0

RECURSIVE DigitsValue(_, _)
\* the number written by the digits of s, the other characters skipped
DigitsValue(s, acc) ==
    IF s = "" THEN acc
    ELSE DigitsValue(SubSeq(s, 2, Len(s)),
                     IF Ch(s, 1) \in Digit THEN 10 * acc + DigitVal(Ch(s, 1)) ELSE acc)

CountCh(s, c) == Cardinality({i \in 1..Len(s) : Ch(s, i) = c})

\* float(s) for s made of an optional sign, digits and dots: None is ValueError
float(s) ==
    LET signed == s # "" /\ Ch(s, 1) \in {"+", "-"}
        body == IF signed THEN SubSeq(s, 2, Len(s)) ELSE s
        dots == CountCh(body, ".")
        ndigits == Cardinality({i \in 1..Len(body) : Ch(body, i) \in Digit})
        dot == IndexIn(body, ".")
        scale == IF dots = 0 THEN 0 ELSE Len(body) - dot
        mag == DigitsValue(body, 0)
    IN  IF dots > 1 \/ ndigits = 0 \/ ndigits + dots # Len(body) THEN None
        ELSE Some(Dec(IF signed /\ Ch(s, 1) = "-" THEN -mag ELSE mag, scale))

(***************************************************************************)
(* services/document_parser.py                                             *)
(***************************************************************************)
\* the tail with a dash let into the captured class: [\d,-]+
LabeledTailSigned ==
    <<Star({":"} \cup Space), Opt({"$"}), Plus(Digit \cup {",", "-"}), Opt({"."}), Star(Digit)>>

\* [:\s]*\$?([\d,]+\.?\d*), the tail the labeled amount patterns share
LabeledTail ==
    <<Star({":"} \cup Space), Opt({"$"}), Plus(Digit \cup {","}), Opt({"."}), Star(Digit)>>

Labeled(prefix) == Pattern(prefix \o LabeledTail, Len(prefix) + 3, Len(prefix) + 5)

total_patterns ==
    <<Labeled(Word("total")),
      Labeled(Word("grand") \o <<Plus(Space)>> \o Word("total")),
      Labeled(Word("amount") \o <<Plus(Space)>> \o Word("due"))>>

tax_patterns ==
    <<Labeled(Word("tax")), Labeled(Word("gst")), Labeled(Word("vat"))>>

\* \$?([\d,]+\.\d{2})
all_amounts_pattern ==
    Pattern(<<Opt({"$"}), Plus(Digit \cup {","}), Lit("."), Rep(Digit, 2, 2)>>, 2, 4)

RECURSIVE AllAmountsLoop(_, _, _)
\* the for loop of _extract_all_amounts: the amounts list after the matches i..
AllAmountsLoop(matches, i, amounts) ==
    IF i > Len(matches) THEN amounts
    ELSE LET amount == float(replace(matches[i], ",", ""))
         IN  IF amount = None THEN AllAmountsLoop(matches, i + 1, amounts)
             ELSE IF IsPositive(amount[1])
                  THEN AllAmountsLoop(matches, i + 1, Append(amounts, amount[1]))
                  ELSE AllAmountsLoop(matches, i + 1, amounts)

SeqToSet(q) == {q[i] : i \in 1..Len(q)}

FloatMax(S) == CHOOSE m \in S : \A o \in S : ~FloatLess(m, o)

RECURSIVE SortedReverse(_)
\* sorted(list(S), reverse=True)
SortedReverse(S) ==
    IF S = {} THEN <<>> ELSE LET m == FloatMax(S) IN <<m>> \o SortedReverse(S \ {m})

_extract_all_amounts(text) ==
    SortedReverse(SeqToSet(AllAmountsLoop(re_findall(all_amounts_pattern, text), 1, <<>>)))

\* _extract_amount taking the last element of the descending list
_extract_amount_last(text) ==
    LET amounts == _extract_all_amounts(text)
    IN  IF amounts # <<>> THEN Some(amounts[Len(amounts)]) ELSE None

_extract_amount(text) ==
    LET amounts == _extract_all_amounts(text)
    IN  IF amounts # <<>> THEN Some(FloatMax(SeqToSet(amounts))) ELSE None

RECURSIVE LabeledLoop(_, _, _)
\* the for loop of _extract_total_amount and of _extract_tax_amount: the first
\* pattern from i on whose leftmost match float() reads, None when there is none
LabeledLoop(patterns, i, text) ==
    IF i > Len(patterns) THEN None
    ELSE LET match == re_search(patterns[i], text, TRUE)
         IN  IF match.matched /\ float(replace(match.group, ",", "")) # None
             THEN float(replace(match.group, ",", ""))
             ELSE LabeledLoop(patterns, i + 1, text)

\* _extract_total_amount without the fallback of line 111
_extract_total_amount_no_fallback(text) == LabeledLoop(total_patterns, 1, text)

_extract_total_amount(text) ==
    LET labeled == LabeledLoop(total_patterns, 1, text)
    IN  IF labeled # None THEN labeled ELSE _extract_amount(text)

_extract_tax_amount(text) == LabeledLoop(tax_patterns, 1, text)

_extract_line_items(text) == <<>>

\* [A-Z0-9\-]
IdentifierChars ==
    {Ch(UpperLetters, i) : i \in 1..Len(UpperLetters)} \cup Digit \cup {"-"}

\* <prefix>[#\s]*[:]?\s*([A-Z0-9\-]+)
NumberPattern(prefix) ==
    Pattern(prefix \o <<Star({"#"} \cup Space), Opt({":"}), Star(Space), Plus(IdentifierChars)>>,
            Len(prefix) + 4, Len(prefix) + 4)

document_number_patterns ==
    <<NumberPattern(Word("invoice")),
      NumberPattern(Word("inv")),
      NumberPattern(Word("po")),
      NumberPattern(Word("purchase") \o <<Plus(Space)>> \o Word("order")),
      NumberPattern(Word("bill")),
      NumberPattern(Word("receipt")),
      \* number[:\s]*([A-Z0-9\-]+)
      Pattern(Word("number") \o <<Star({":"} \cup Space), Plus(IdentifierChars)>>, 8, 8)>>

\* the patterns that match the text, and where their leftmost matches start
MatchingNumberPatterns(text) ==
    {k \in 1..Len(document_number_patterns) :
        re_search(document_number_patterns[k], text, TRUE).matched}

\* _extract_document_number taking the match that starts earliest in the text
_extract_document_number_leftmost(text) ==
    LET matching == MatchingNumberPatterns(text)
        start(k) == re_search(document_number_patterns[k], text, TRUE).start
    IN  IF matching = {} THEN None
        ELSE LET k == CHOOSE i \in matching :
                        \A j \in matching : start(i) < start(j) \/ (start(i) = start(j) /\ i <= j)
             IN  Some(strip(re_search(document_number_patterns[k], text, TRUE).group))

RECURSIVE DocumentNumberLoop(_, _)
\* the for loop of _extract_document_number from pattern i on
DocumentNumberLoop(i, text) ==
    IF i > Len(document_number_patterns) THEN None
    ELSE LET match == re_search(document_number_patterns[i], text, TRUE)
         IN  IF match.matched THEN Some(strip(match.group))
             ELSE DocumentNumberLoop(i + 1, text)

_extract_document_number(text) == DocumentNumberLoop(1, text)

(***************************************************************************)
(* _extract_date.  The candidate strings hold three runs of digits joined  *)
(* by dashes, and dateutil's parser reads such a string as follows: a run  *)
(* of more than two digits is the year (and fixes the century); otherwise  *)
(* the first number is the year when it is above 31, the day when it is    *)
(* above 12, and the month if not; a year without century is placed within *)
(* fifty years of the current year; the date must exist in the calendar.   *)
(* The current year and whether the C library's strftime pads %Y to four   *)
(* digits belong to the environment the service runs in.                   *)
(***************************************************************************)
DateSeparator == {"/", "-"}

\* \d{1,2}[/-]\d{1,2}[/-]\d{2,4}
DayMonthYear ==
    <<Rep(Digit, 1, 2), Rep(DateSeparator, 1, 1), Rep(Digit, 1, 2),
      Rep(DateSeparator, 1, 1), Rep(Digit, 2, 4)>>

date_patterns ==
    <<\* date[:\s]*(\d{1,2}[/-]\d{1,2}[/-]\d{2,4})
      Pattern(Word("date") \o <<Star({":"} \cup Space)>> \o DayMonthYear, 6, 10),
      \* (\d{1,2}[/-]\d{1,2}[/-]\d{2,4})
      Pattern(DayMonthYear, 1, 5),
      \* (\d{4}[/-]\d{1,2}[/-]\d{1,2})
      Pattern(<<Rep(Digit, 4, 4), Rep(DateSeparator, 1, 1), Rep(Digit, 1, 2),
                Rep(DateSeparator, 1, 1), Rep(Digit, 1, 2)>>, 1, 5)>>

RECURSIVE split(_, _)
\* str.split(sep) for a one-character sep
split(s, sep) ==
    LET i == IndexIn(s, sep)
    IN  IF i = 0 THEN <<s>>
        ELSE <<SubSeq(s, 1, i - 1)>> \o split(SubSeq(s, i + 1, Len(s)), sep)

IsLeap(year) == year % 4 = 0 /\ (year % 100 # 0 \/ year % 400 = 0)

DaysInMonth(year, month) ==
    IF month = 2 THEN (IF IsLeap(year) THEN 29 ELSE 28)
    ELSE IF month \in {4, 6, 9, 11} THEN 30 ELSE 31

\* datetime(year, month, day): None is ValueError
datetime(year, month, day) ==
    IF /\ year \in 1..9999
       /\ month \in 1..12
       /\ day \in 1..DaysInMonth(year, month)
    THEN Some([year |-> year, month |-> month, day |-> day])
    ELSE None

\* parserinfo.convertyear
convertyear(year, century_specified, this_year) ==
    IF year < 100 /\ ~century_specified
    THEN LET y == year + (this_year \div 100) * 100
         IN  IF y >= this_year + 50 THEN y - 100
             ELSE IF y < this_year - 50 THEN y + 100
             ELSE y
    ELSE year

\* _ymd.resolve_ymd for three numbers of which none is a month name
resolve_ymd(ymd, ystridx) ==
    IF ymd[1] > 31 \/ ystridx = 1
    THEN [year |-> ymd[1], month |-> ymd[2], day |-> ymd[3]]
    ELSE IF ymd[1] > 12
    THEN [day |-> ymd[1], month |-> ymd[2], year |-> ymd[3]]
    ELSE [month |-> ymd[1], day |-> ymd[2], year |-> ymd[3]]

\* date_parser.parse(date_str, fuzzy=True) for digits joined by dashes: None
\* is the parser's ValueError
date_parser_parse(date_str, env) ==
    LET tokens == split(date_str, "-")
        long == {i \in 1..Len(tokens) : Len(tokens[i]) > 2}
    IN  IF Len(tokens) # 3 \/ \E i \in 1..Len(tokens) : tokens[i] = "" THEN None
        ELSE IF Cardinality(long) > 1 THEN None
        ELSE LET ymd == [i \in 1..3 |-> DigitsValue(tokens[i], 0)]
                 ystridx == IF long = {} THEN 0 ELSE CHOOSE i \in long : TRUE
                 res == resolve_ymd(ymd, ystridx)
             IN  datetime(convertyear(res.year, long # {}, env.year), res.month, res.day)

DigitChars == "0123456789"

RECURSIVE str(_)
\* str(n) for n >= 0
str(n) == IF n < 10 THEN Ch(DigitChars, n + 1) ELSE str(n \div 10) \o Ch(DigitChars, (n % 10) + 1)

RECURSIVE zfill(_, _)
zfill(s, width) == IF Len(s) >= width THEN s ELSE zfill("0" \o s, width)

\* parsed_date.strftime('%Y-%m-%d')
strftime(d, env) ==
    (IF env.pads_year THEN zfill(str(d.year), 4) ELSE str(d.year))
    \o "-" \o zfill(str(d.month), 2) \o "-" \o zfill(str(d.day), 2)

RECURSIVE DateMatchesLoop(_, _, _)
\* the inner for loop of _extract_date from match i on
DateMatchesLoop(matches, i, env) ==
    IF i > Len(matches) THEN None
    ELSE LET date_str == replace(matches[i], "/", "-")
             parsed_date == date_parser_parse(date_str, env)
         IN  IF parsed_date # None THEN Some(strftime(parsed_date[1], env))
             ELSE DateMatchesLoop(matches, i + 1, env)

RECURSIVE DatePatternsStop(_, _, _)
\* the outer loop giving up at the first pattern that has matches
DatePatternsStop(k, text, env) ==
    IF k > Len(date_patterns) THEN None
    ELSE LET matches == re_findall(date_patterns[k], text)
         IN  IF matches # <<>> THEN DateMatchesLoop(matches, 1, env)
             ELSE DatePatternsStop(k + 1, text, env)

\* _extract_date returning after the first pattern that has matches
_extract_date_first_pattern(text, env) == DatePatternsStop(1, text, env)

RECURSIVE DatePatternsLoop(_, _, _)
\* the outer for loop of _extract_date from pattern k on
DatePatternsLoop(k, text, env) ==
    IF k > Len(date_patterns) THEN None
    ELSE LET matches == re_findall(date_patterns[k], text)
             found == DateMatchesLoop(matches, 1, env)
         IN  IF found # None THEN found ELSE DatePatternsLoop(k + 1, text, env)

_extract_date(text, env) == DatePatternsLoop(1, text, env)

(***************************************************************************)
(* _extract_vendor_name                                                    *)
(***************************************************************************)
\* [\d\s\$\.,:]
NumberOrSymbol == Digit \cup Space \cup {"$", ".", ",", ":"}

\* re.match(r'^[\d\s\$\.,:]+$', line) on a stripped line
only_numbers_and_symbols(line) ==
    LET e == MatchItems(<<Plus(NumberOrSymbol)>>, 1, line, 1, FALSE)
    IN  e # Fail /\ e[1] = Len(line) + 1

company_indicators == <<"inc", "ltd", "llc", "corp", "company">>

has_company_indicator(line) ==
    \E i \in 1..Len(company_indicators) : Contains(lower(line), company_indicators[i])

\* str.isupper(): some cased character and no lower-case one
isupper(s) ==
    /\ \E i \in 1..Len(s) : Ch(s, i) \in DOMAIN LowerMap
    /\ \A i \in 1..Len(s) : Ch(s, i) \notin DOMAIN UpperMap

\* the test of lines 159-167 without the lower bound on the length of the line
is_vendor_line_any_length(line) ==
    /\ Len(line) > 0 /\ Len(line) < 100
    /\ ~only_numbers_and_symbols(line)
    /\ \/ has_company_indicator(line)
       \/ isupper(line) /\ 5 <= Len(line) /\ Len(line) <= 50

\* lines 159-167: whether the stripped line is taken as the vendor name
is_vendor_line(line) ==
    /\ Len(line) > 3 /\ Len(line) < 100
    /\ ~only_numbers_and_symbols(line)
    /\ \/ has_company_indicator(line)
       \/ isupper(line) /\ 5 <= Len(line) /\ Len(line) <= 50

RECURSIVE VendorLoop(_, _)
\* the for loop of _extract_vendor_name from line i on
VendorLoop(lines, i) ==
    IF i > Len(lines) THEN None
    ELSE LET line == strip(lines[i])
         IN  IF is_vendor_line(line) THEN Some(line) ELSE VendorLoop(lines, i + 1)

_extract_vendor_name(text) ==
    LET all == split(text, "\n")
        lines == SubSeq(all, 1, IF Len(all) < 10 THEN Len(all) ELSE 10)
    IN  VendorLoop(lines, 1)

(***************************************************************************)
(* _extract_address: the one pattern                                       *)
(*   (\d+\s+[A-Za-z\s]+(?:Street|St|...|Blvd)[\s,]+[A-Za-z\s,]+(?:\d{5})?) *)
(* matched as the regular expression engine does: every repetition greedy, *)
(* the alternatives of the group tried in order for each length of the run *)
(* before it.                                                              *)
(***************************************************************************)
Letters ==
    {Ch(UpperLetters, i) : i \in 1..Len(UpperLetters)}
    \cup {Ch(LowerLetters, i) : i \in 1..Len(LowerLetters)}

street_suffixes ==
    <<"street", "st", "avenue", "ave", "road", "rd", "drive", "dr", "lane", "ln",
      "boulevard", "blvd">>

\* [\s,]+[A-Za-z\s,]+
AfterSuffix == <<Plus(Space \cup {","}), Plus(Letters \cup Space \cup {","})>>

\* a or, when that is 0, b
OrElse(a, b) == IF a # 0 THEN a ELSE b

\* the end of the match given the positions e at which [\s,]+[A-Za-z\s,]+ end,
\* five digits taken when they follow; 0 when e is Fail
AfterSuffixEnd(text, e) ==
    IF e = Fail THEN 0
    ELSE e[2] + (IF RunLen(text, e[2], Digit, 5, TRUE) = 5 THEN 5 ELSE 0)

\* the end of the match when the alternative word of the group starts at pos
SuffixAt(text, pos, word) ==
    IF pos + Len(word) <= Len(text) + 1
       /\ lower(SubSeq(text, pos, pos + Len(word) - 1)) = word
    THEN AfterSuffixEnd(text, MatchItems(AfterSuffix, 1, text, pos + Len(word), TRUE))
    ELSE 0

RECURSIVE SuffixLoop(_, _, _)
\* the end of the match when the suffix group starts at pos, alternatives a.. ; 0: none
SuffixLoop(text, pos, a) ==
    IF a > Len(street_suffixes) THEN 0
    ELSE OrElse(SuffixAt(text, pos, street_suffixes[a]), SuffixLoop(text, pos, a + 1))

RECURSIVE StreetNameLoop(_, _, _)
\* [A-Za-z\s]+ from pos, n characters first and fewer on each backtrack
StreetNameLoop(text, pos, n) ==
    IF n < 1 THEN 0
    ELSE OrElse(SuffixLoop(text, pos + n, 1), StreetNameLoop(text, pos, n - 1))

RECURSIVE StreetGapLoop(_, _, _)
\* \s+ from pos, w characters first and fewer on each backtrack
StreetGapLoop(text, pos, w) ==
    IF w < 1 THEN 0
    ELSE OrElse(StreetNameLoop(text, pos + w,
                               RunLen(text, pos + w, Letters \cup Space, -1, TRUE)),
                StreetGapLoop(text, pos, w - 1))

RECURSIVE StreetNumberLoop(_, _, _)
\* \d+ from pos, d digits first and fewer on each backtrack
StreetNumberLoop(text, pos, d) ==
    IF d < 1 THEN 0
    ELSE OrElse(StreetGapLoop(text, pos + d, RunLen(text, pos + d, Space, -1, TRUE)),
                StreetNumberLoop(text, pos, d - 1))

\* the end of the match of the address pattern that starts at s, 0 when none does
AddressAt(text, s) == StreetNumberLoop(text, s, RunLen(text, s, Digit, -1, TRUE))

RECURSIVE FirstAddressIn(_, _, _)
\* the first position of lo..hi at which the address pattern matches, 0 when
\* there is none
FirstAddressIn(text, lo, hi) ==
    IF lo > hi THEN 0
    ELSE IF lo = hi THEN (IF AddressAt(text, lo) # 0 THEN lo ELSE 0)
    ELSE OrElse(FirstAddressIn(text, lo, (lo + hi) \div 2),
                FirstAddressIn(text, (lo + hi) \div 2 + 1, hi))

\* the text of the match of the address pattern from s; s = 0: no match
AddressFrom(text, s) ==
    IF s = 0 THEN None ELSE Some(SubSeq(text, s, AddressAt(text, s) - 1))

\* re.search of the address pattern: the text of the leftmost match
AddressSearch(text) == AddressFrom(text, FirstAddressIn(text, 1, Len(text)))

\* match.group(1).strip() of an optional match
StrippedGroup(match) == IF match # None THEN Some(strip(match[1])) ELSE None

_extract_address(text) == StrippedGroup(AddressSearch(text))

\* DocumentParser.parse: the record built from the text
parse(text, document_type, env) ==
    LET text_upper == upper(text)
    IN  [document_number |-> _extract_document_number(text_upper),
         date |-> _extract_date(text, env),
         amount |-> _extract_amount(text),
         total_amount |-> _extract_total_amount(text),
         tax_amount |-> _extract_tax_amount(text),
         vendor_name |-> _extract_vendor_name(text),
         vendor_address |-> _extract_address(text),
         line_items |-> _extract_line_items(text),
         raw_text |-> text]

(***************************************************************************)
(* services/document_classifier.py                                         *)
(***************************************************************************)
INVOICE_KEYWORDS ==
    <<"invoice", "inv#", "invoice number", "invoice no", "bill to",
      "invoice date", "due date", "amount due", "total due">>

RECEIPT_KEYWORDS ==
    <<"receipt", "thank you", "payment received", "transaction",
      "card ending", "change", "cash", "subtotal", "tax">>

PO_KEYWORDS ==
    <<"purchase order", "po number", "po#", "p.o.", "order number",
      "delivery date", "ship to", "billing address">>

BILL_KEYWORDS ==
    <<"bill", "statement", "account number", "previous balance",
      "current charges", "amount owed">>

RECURSIVE KeywordCount(_, _, _)
\* sum(1 for keyword in keywords if keyword in text_lower), from keyword i on
KeywordCount(keywords, i, text_lower) ==
    IF i > Len(keywords) THEN 0
    ELSE (IF Contains(text_lower, keywords[i]) THEN 1 ELSE 0)
         + KeywordCount(keywords, i + 1, text_lower)

\* <word>[#\s]*[\d-]+
NumberingPattern(word) ==
    Pattern(Word(word) \o <<Star({"#"} \cup Space), Plus(Digit \cup {"-"})>>,
            1, Len(word) + 2)

\* p\.o\.\s*[\d-]+
PoDottedPattern ==
    Pattern(Word("p.o.") \o <<Star(Space), Plus(Digit \cup {"-"})>>, 1, 6)

Found(re, text) == re_search(re, text, FALSE).matched

\* the insertion order of the scores dict
DocTypes == <<"invoice", "receipt", "purchase_order", "bill">>

\* lines 39-61 of classify: keyword counts plus the numbering bonus, in the
\* scores dict
scores_of(text_lower) ==
    LET invoice_score == KeywordCount(INVOICE_KEYWORDS, 1, text_lower)
        receipt_score == KeywordCount(RECEIPT_KEYWORDS, 1, text_lower)
        po_score == KeywordCount(PO_KEYWORDS, 1, text_lower)
        bill_score == KeywordCount(BILL_KEYWORDS, 1, text_lower)
    IN  [invoice |->
            invoice_score
            + (IF Found(NumberingPattern("inv"), text_lower) THEN 2 ELSE 0),
         purchase_order |->
            po_score
            + (IF Found(NumberingPattern("po"), text_lower)
                  \/ Found(PoDottedPattern, text_lower) THEN 2 ELSE 0),
         receipt |->
            receipt_score
            + (IF Found(NumberingPattern("receipt"), text_lower) THEN 2 ELSE 0),
         bill |->
            bill_score
            + (IF Found(NumberingPattern("bill"), text_lower) THEN 2 ELSE 0)]

\* classify reading the text as it is, not lower-cased
type_scores_case_sensitive(text) == scores_of(text)

\* lines 37-61 of classify
type_scores(text) == scores_of(lower(text))

RECURSIVE MaxKeyLoop(_, _, _)
\* max(scores, key=scores.get): the keys in insertion order, a later key
\* replacing the best one only when its score is strictly greater
MaxKeyLoop(scores, i, best) ==
    IF i > Len(DocTypes) THEN best
    ELSE MaxKeyLoop(scores, i + 1,
                    IF scores[DocTypes[i]] > scores[best] THEN DocTypes[i] ELSE best)

RECURSIVE MaxKeyLastLoop(_, _, _)
MaxKeyLastLoop(scores, i, best) ==
    IF i > Len(DocTypes) THEN best
    ELSE MaxKeyLastLoop(scores, i + 1,
                        IF scores[DocTypes[i]] >= scores[best] THEN DocTypes[i] ELSE best)

\* the last of the keys holding the maximum
max_key_last(scores) == MaxKeyLastLoop(scores, 2, DocTypes[1])

max_key(scores) == MaxKeyLoop(scores, 2, DocTypes[1])

MaxOf(S) == CHOOSE m \in S : \A o \in S : o <= m

\* the end of classify: the type with the highest score, or unknown
classify_scores(scores) ==
    LET max_score == MaxOf({scores[t] : t \in DOMAIN scores})
    IN  IF max_score > 0 THEN max_key(scores) ELSE "unknown"

\* DocumentClassifier.classify
classify(text) == classify_scores(type_scores(text))

(***************************************************************************)
(* Results of calls that may raise.                                        *)
(***************************************************************************)
Ok(v) == [ok |-> TRUE, value |-> v]
Raise(msg) == [ok |-> FALSE, error |-> msg]

(***************************************************************************)
(* utils/image_utils.py.  An upload is [decodable, exif, size]: whether    *)
(* the bytes decode, what reading the EXIF block gives ("none": no EXIF,   *)
(* "corrupt": reading raises, "tags": a block whose orientation entry is   *)
(* None or <<n>>) and the pixel size.  An image is its size <<width,       *)
(* height>> and the rotation applied to the decoded pixels, in degrees.    *)
(***************************************************************************)
\* Image.open(io.BytesIO(image_bytes))
Image_open(image_bytes) ==
    IF image_bytes.decodable
    THEN Ok([size |-> image_bytes.size, rotation |-> 0])
    ELSE Raise("cannot identify image file")

\* image.rotate(angle, expand=True)
rotate(image, angle) ==
    [size |-> IF angle \in {90, 270} THEN <<image.size[2], image.size[1]>> ELSE image.size,
     rotation |-> (image.rotation + angle) % 360]

\* the rotation the if/elif chain applies for an orientation value
OrientationAngle(orientation) ==
    IF orientation = 3 THEN 180
    ELSE IF orientation = 6 THEN 270
    ELSE IF orientation = 8 THEN 90
    ELSE 0

\* the try block of correct_orientation
correct_orientation_try(image_bytes) ==
    LET opened == Image_open(image_bytes)
        exif == image_bytes.exif
    IN  IF ~opened.ok THEN opened
        ELSE IF exif.kind = "corrupt" THEN Raise("EXIF data could not be read")
        ELSE IF exif.kind = "tags" /\ exif.orientation # None /\ exif.orientation[1] # 0
                /\ OrientationAngle(exif.orientation[1]) # 0
             THEN Ok(rotate(opened.value, OrientationAngle(exif.orientation[1])))
             ELSE opened

\* correct_orientation without the except clause
correct_orientation_unguarded(image_bytes) == correct_orientation_try(image_bytes)

\* correct_orientation: any exception of the try block is answered by opening
\* the bytes again, which raises again when they do not decode
correct_orientation(image_bytes) ==
    LET tried == correct_orientation_try(image_bytes)
    IN  IF tried.ok THEN tried ELSE Image_open(image_bytes)

\* whether the double m / d is not the exact quotient: the reduced
\* denominator has an odd factor
RECURSIVE OddPart(_)
OddPart(n) == IF n % 2 = 0 THEN OddPart(n \div 2) ELSE n

InexactQuotient(m, d) == m % OddPart(d) # 0

\* The values int(a * (m / d)) can take in double arithmetic: the floor of
\* a * m / d; when a * m / d is an integer k and m / d was rounded, the
\* product may fall just below k and truncate to k - 1 (2105 * (2000 / 2105)
\* gives 1999).
ScaledSide(a, m, d) ==
    LET k == (a * m) \div d
    IN  IF (a * m) % d = 0 /\ InexactQuotient(m, d) THEN {k - 1, k} ELSE {k}

\* image.resize(size, LANCZOS): Pillow refuses a size with a side below 1
Image_resize(image, size) ==
    IF size[1] < 1 \/ size[2] < 1
    THEN Raise("height and width must be > 0")
    ELSE Ok([size |-> size, rotation |-> image.rotation])

\* resize_image: the set of results the call can have
resize_image(image, max_dimension) ==
    LET width == image.size[1]
        height == image.size[2]
    IN  IF width <= max_dimension /\ height <= max_dimension THEN {Ok(image)}
        ELSE IF width > height
             THEN {Image_resize(image, <<max_dimension, new_height>>) :
                      new_height \in ScaledSide(height, max_dimension, width)}
             ELSE {Image_resize(image, <<new_width, max_dimension>>) :
                      new_width \in ScaledSide(width, max_dimension, height)}

(***************************************************************************)
(* services/ocr_engine.py.  What the engine answers for one image is       *)
(* [data, text]: image_to_data gives Ok([conf |-> the per-token            *)
(* confidences]) or raises, image_to_string gives Ok(text) or raises.      *)
(* Confidences are fractions [num, den], as the divisions leave them.      *)
(***************************************************************************)
RECURSIVE SeqSum(_)
SeqSum(q) == IF q = <<>> THEN 0 ELSE Head(q) + SeqSum(Tail(q))

Max2(a, b) == IF a >= b THEN a ELSE b
Min2(a, b) == IF a <= b THEN a ELSE b
Abs(x) == IF x < 0 THEN -x ELSE x

IsAboveZero(conf) == conf > 0

IsNotSentinel(conf) == conf >= 0

\* the filter keeping the tokens at zero
nonnegative_confidences(conf) == SelectSeq(conf, IsNotSentinel)

\* [int(conf) for conf in data['conf'] if int(conf) > 0]
positive_confidences(conf) == SelectSeq(conf, IsAboveZero)

RatLess(a, b) == a.num * b.den < b.num * a.den

\* extract_with_confidence answering an engine error with an empty result
extract_with_confidence_swallow(answer) ==
    IF ~answer.data.ok \/ ~answer.text.ok
    THEN Ok([text |-> "", confidence |-> [num |-> 0, den |-> 100],
             detailed_data |-> [conf |-> <<>>]])
    ELSE LET confidences == positive_confidences(answer.data.value.conf)
         IN  Ok([text |-> strip(answer.text.value),
                 confidence |-> [num |-> SeqSum(confidences),
                                 den |-> Max2(Len(confidences), 1) * 100],
                 detailed_data |-> answer.data.value])

extract_with_confidence(answer) ==
    IF ~answer.data.ok
    THEN Raise("OCR extraction with confidence failed: " \o answer.data.error)
    ELSE IF ~answer.text.ok
    THEN Raise("OCR extraction with confidence failed: " \o answer.text.error)
    ELSE LET confidences == positive_confidences(answer.data.value.conf)
             avg_confidence ==
                 IF confidences # <<>>
                 THEN [num |-> SeqSum(confidences), den |-> Len(confidences)]
                 ELSE [num |-> 0, den |-> 1]
         IN  Ok([text |-> strip(answer.text.value),
                 confidence |-> [num |-> avg_confidence.num,
                                 den |-> avg_confidence.den * 100],
                 detailed_data |-> answer.data.value])

(***************************************************************************)
(* config.py and models/schemas.py                                         *)
(***************************************************************************)
MAX_IMAGE_SIZE == 10485760

SUPPORTED_FORMATS == {"image/jpeg", "image/png", "image/webp", "image/tiff"}

\* ExtractedData(): every field at its default
EmptyExtractedData ==
    [document_number |-> None, date |-> None, amount |-> None, total_amount |-> None,
     tax_amount |-> None, vendor_name |-> None, vendor_address |-> None,
     line_items |-> <<>>]

\* ExtractedData(**extracted_data_dict): the fields of the schema, the extra
\* raw_text key ignored
ExtractedData(d) ==
    [document_number |-> d.document_number, date |-> d.date, amount |-> d.amount,
     total_amount |-> d.total_amount, tax_amount |-> d.tax_amount,
     vendor_name |-> d.vendor_name, vendor_address |-> d.vendor_address,
     line_items |-> d.line_items]

ProcessResponse(success, confidence, document_type, extracted_data, raw_text, error) ==
    [status |-> 200, success |-> success, confidence |-> confidence,
     document_type |-> document_type, extracted_data |-> extracted_data,
     raw_text |-> raw_text, error |-> error]

HTTPException(status_code, detail) == [status |-> status_code, detail |-> detail]

(***************************************************************************)
(* Bounds of the model and the inputs drawn within them.                   *)
(***************************************************************************)
MaxTokens == 2
MaxSide == 12
MaxDimension == 5
MaxFragments == 3

\* the max_dimension process_document passes
PipelineMaxDimension == 2000

\* per-token confidences: the non-text sentinel, zero, either side of the
\* gate's threshold, and the top of the scale
ConfValues == {-1, 0, 9, 10, 100}

ConfSeqs == UNION {[1..n -> ConfValues] : n \in 0..MaxTokens}

EngineErrors == {"tesseract is not installed or it's not in your PATH", "image file is truncated"}

OcrTexts ==
    {"", " \n", "Total: $1,234.56 Tax: $61.73", "INVOICE\nInv# 12\nAmount due: $7.50\n",
     "thank you"}

EngineAnswers ==
    {[data |-> Raise(m), text |-> Ok("")] : m \in EngineErrors}
    \cup {[data |-> Ok([conf |-> <<100>>]), text |-> Raise(m)] : m \in EngineErrors}
    \cup {[data |-> Ok([conf |-> c]), text |-> Ok(t)] : c \in ConfSeqs, t \in OcrTexts}

ExifBlocks ==
    {[kind |-> "none", orientation |-> None], [kind |-> "corrupt", orientation |-> None],
     [kind |-> "tags", orientation |-> None]}
    \cup {[kind |-> "tags", orientation |-> Some(n)] : n \in 0..9}

Uploads ==
    [content_type : {"image/jpeg", "application/pdf"},
     nbytes : {MAX_IMAGE_SIZE, MAX_IMAGE_SIZE + 1},
     decodable : BOOLEAN,
     exif : {e \in ExifBlocks : e.kind # "tags" \/ e.orientation = Some(6)},
     size : {<<1000, 800>>, <<4000, 3000>>, <<4002, 2>>}]

RECURSIVE Concats(_, _)
\* the texts made of at most n of the fragments F
Concats(F, n) ==
    IF n = 0 THEN {""}
    ELSE LET shorter == Concats(F, n - 1)
         IN  shorter \cup {t \o f : t \in shorter, f \in F}

ExampleText == "Total: $1,234.56 Tax: $61.73"

ParserFragments ==
    {"Total: $", "total , ", "grand total ", "amount due ", "tax: ",
     "7.50", "0.00", "1", "-", ","}

ParserTexts == Concats(ParserFragments, MaxFragments) \cup {ExampleText}

\* where the service runs: the current year, and whether strftime pads %Y
Environments == [year : {2026, 2027}, pads_year : BOOLEAN]

DefaultEnvironment == [year |-> 2026, pads_year |-> FALSE]

DateExampleText == "Date: 03/14/2024"

DateFragments ==
    {"date: ", "03/14/2024", "13/13/24 ", "2031-04-15", "01/02/76", "14-3-202"}

DateTexts == Concats(DateFragments, MaxFragments) \cup {DateExampleText}

NumberFragments ==
    {"invoice ", "Inv#", "PO: ", "purchase  order", "bill", "receipt #", "number:",
     "a-12", " ", "\n"}

NumberTexts == Concats(NumberFragments, MaxFragments)

\* a line of 100 characters holding a company indicator
LongLine ==
    "Acme Inc and partners, " \o "suppliers of fasteners, fixings and hand tools "
    \o "to the trade since 1987, Leeds"

VendorFragments ==
    {"\n\n\n\n\n", "\n", " Acme Supply Ltd \n", "ACME\n", "ACME 24\n", "inc", "12.50 $\n"}

VendorTexts ==
    Concats(VendorFragments, MaxFragments)
    \cup {l \o t : l \in {LongLine, SubSeq(LongLine, 1, 99)}, t \in {"", "\nACME 24"}}

ClassifierFragments ==
    {"invoice", "INVOICE", "inv", "bill", " to", "receipt", "po", "p.o.", "#", " ", "12"}

ClassifierTexts == Concats(ClassifierFragments, MaxFragments)

ImageCalls ==
    {[fn |-> "resize_image", image |-> [size |-> <<w, h>>, rotation |-> 0],
      max_dimension |-> m] : w \in 1..MaxSide, h \in 1..MaxSide, m \in 1..MaxDimension}
    \cup {[fn |-> "resize_image", image |-> [size |-> sz, rotation |-> 0],
           max_dimension |-> PipelineMaxDimension] :
             sz \in {<<4000, 3000>>, <<2105, 2105>>, <<2000, 2000>>, <<4002, 2>>}}
    \cup {[fn |-> "correct_orientation",
           image_bytes |-> [decodable |-> dc, exif |-> e, size |-> sz]] :
             dc \in BOOLEAN, e \in ExifBlocks, sz \in {<<4, 3>>, <<5, 5>>}}

(***************************************************************************)
(* State.  pc is the position in process_document (or in a direct call of  *)
(* one component), file the upload, image / ocr_result / document_type the *)
(* handler's locals, engine what the recognition engine answered for this  *)
(* request, response what the handler answered, calls the                  *)
(* components invoked so far in order; arg and ret are the argument and    *)
(* the result of a direct call of one component.                           *)
(***************************************************************************)
VARIABLES pc, file, image, engine, ocr_result, document_type, response, calls, arg, ret

vars == <<pc, file, image, engine, ocr_result, document_type, response, calls, arg, ret>>

locals == <<image, engine, ocr_result, document_type>>

NoFile ==
    [content_type |-> "", nbytes |-> 0, decodable |-> FALSE,
     exif |-> [kind |-> "none", orientation |-> None], size |-> <<0, 0>>]

Init ==
    /\ pc = "validate_type"
    /\ file \in Uploads
    /\ image = None
    /\ engine = None
    /\ ocr_result = None
    /\ document_type = None
    /\ response = None
    /\ calls = <<>>
    /\ arg = None
    /\ ret = None

\* lines 124-129: any other exception becomes a 500 carrying its message
Fail500(e) ==
    /\ response' = Some(HTTPException(500, "Error processing document: " \o e))
    /\ pc' = "done"

\* lines 68-73
ValidateType ==
    /\ pc = "validate_type"
    /\ IF file.content_type \notin SUPPORTED_FORMATS
       THEN /\ response' = Some(HTTPException(400, "Unsupported file type: " \o file.content_type))
            /\ pc' = "done"
       ELSE /\ pc' = "validate_size"
            /\ UNCHANGED response
    /\ UNCHANGED <<file, locals, calls, arg, ret>>

\* lines 75-83
ValidateSize ==
    /\ pc = "validate_size"
    /\ IF file.nbytes > MAX_IMAGE_SIZE
       THEN /\ response' = Some(HTTPException(400, "File too large"))
            /\ pc' = "done"
       ELSE /\ pc' = "correct_orientation"
            /\ UNCHANGED response
    /\ UNCHANGED <<file, locals, calls, arg, ret>>

\* line 86
CorrectOrientation ==
    /\ pc = "correct_orientation"
    /\ calls' = Append(calls, "correct_orientation")
    /\ LET r == correct_orientation(file)
       IN  IF r.ok
           THEN image' = Some(r.value) /\ pc' = "resize_image" /\ UNCHANGED response
           ELSE Fail500(r.error) /\ UNCHANGED image
    /\ UNCHANGED <<file, engine, ocr_result, document_type, arg, ret>>

\* line 89
ResizeImage ==
    /\ pc = "resize_image"
    /\ calls' = Append(calls, "resize_image")
    /\ \E r \in resize_image(image[1], PipelineMaxDimension) :
          IF r.ok
          THEN image' = Some(r.value) /\ pc' = "preprocess_image" /\ UNCHANGED response
          ELSE Fail500(r.error) /\ UNCHANGED image
    /\ UNCHANGED <<file, engine, ocr_result, document_type, arg, ret>>

\* services/image_processor.py: the OpenCV chain gives the binarised image,
\* of the same size, or raises
preprocess_image(img) == {Ok(img), Raise("OpenCV error")}

\* line 92
PreprocessImage ==
    /\ pc = "preprocess_image"
    /\ calls' = Append(calls, "preprocess_image")
    /\ \E r \in preprocess_image(image[1]) :
          IF r.ok
          THEN image' = Some(r.value) /\ pc' = "extract_with_confidence" /\ UNCHANGED response
          ELSE Fail500(r.error) /\ UNCHANGED image
    /\ UNCHANGED <<file, engine, ocr_result, document_type, arg, ret>>

\* line 95
ExtractWithConfidence ==
    /\ pc = "extract_with_confidence"
    /\ calls' = Append(calls, "extract_with_confidence")
    /\ \E answer \in EngineAnswers :
          LET r == extract_with_confidence(answer)
          IN  /\ engine' = Some(answer)
              /\ IF r.ok
                 THEN ocr_result' = Some(r.value) /\ pc' = "gate" /\ UNCHANGED response
                 ELSE Fail500(r.error) /\ UNCHANGED ocr_result
    /\ UNCHANGED <<file, image, document_type, arg, ret>>

\* 0.1, the threshold of line 97
GateThreshold == [num |-> 1, den |-> 10]

\* the gate with <= in place of <
gate_closed_inclusive(result) ==
    result.text = "" \/ ~RatLess(GateThreshold, result.confidence)

\* line 97: not ocr_result['text'] or ocr_result['confidence'] < 0.1
gate_closed(result) == result.text = "" \/ RatLess(result.confidence, GateThreshold)

\* lines 97-105
ConfidenceGate ==
    /\ pc = "gate"
    /\ IF gate_closed(ocr_result[1])
       THEN /\ response' = Some(ProcessResponse(FALSE, ocr_result[1].confidence, "unknown",
                                    EmptyExtractedData, ocr_result[1].text,
                                    Some("No text detected in image or confidence too low")))
            /\ pc' = "done"
       ELSE /\ pc' = "classify"
            /\ UNCHANGED response
    /\ UNCHANGED <<file, locals, calls, arg, ret>>

\* line 108
Classify ==
    /\ pc = "classify"
    /\ calls' = Append(calls, "classify")
    /\ document_type' = Some(classify(ocr_result[1].text))
    /\ pc' = "parse"
    /\ UNCHANGED <<file, image, engine, ocr_result, response, arg, ret>>

\* lines 111-120
ParseAndRespond ==
    /\ pc = "parse"
    /\ calls' = Append(calls, "parse")
    /\ \E env \in Environments :
          LET extracted_data_dict == parse(ocr_result[1].text, document_type[1], env)
          IN  response' = Some(ProcessResponse(TRUE, ocr_result[1].confidence,
                                   document_type[1], ExtractedData(extracted_data_dict),
                                   ocr_result[1].text, None))
    /\ pc' = "done"
    /\ UNCHANGED <<file, locals, arg, ret>>

Next ==
    \/ ValidateType
    \/ ValidateSize
    \/ CorrectOrientation
    \/ ResizeImage
    \/ PreprocessImage
    \/ ExtractWithConfidence
    \/ ConfidenceGate
    \/ Classify
    \/ ParseAndRespond

\* process_document, one request
Spec == Init /\ [][Next]_vars

(***************************************************************************)
(* Direct calls of one component: arg is the call, ret its result.         *)
(***************************************************************************)
InitCall(calls_) ==
    /\ pc = "call"
    /\ arg \in {Some(c) : c \in calls_}
    /\ ret = None
    /\ file = NoFile
    /\ image = None
    /\ engine = None
    /\ ocr_result = None
    /\ document_type = None
    /\ response = None
    /\ calls = <<>>

Return(r) ==
    /\ ret' = Some(r)
    /\ pc' = "returned"
    /\ UNCHANGED <<file, locals, response, calls, arg>>

CallResizeImage ==
    /\ pc = "call"
    /\ arg[1].fn = "resize_image"
    /\ \E r \in resize_image(arg[1].image, arg[1].max_dimension) : Return(r)

CallCorrectOrientation ==
    /\ pc = "call"
    /\ arg[1].fn = "correct_orientation"
    /\ Return(correct_orientation(arg[1].image_bytes))

InitImage == InitCall(ImageCalls)

NextImage == CallResizeImage \/ CallCorrectOrientation

\* resize_image and correct_orientation on their own
SpecImage == InitImage /\ [][NextImage]_vars

\* classify up to the scores dict
ScoreTypes ==
    /\ pc = "call"
    /\ arg[1].fn = "classify"
    /\ ret' = Some([scores |-> type_scores(arg[1].text)])
    /\ pc' = "scored"
    /\ UNCHANGED <<file, locals, response, calls, arg>>

\* classify from the scores dict to its return
PickType ==
    /\ pc = "scored"
    /\ Return([scores |-> ret[1].scores, document_type |-> classify_scores(ret[1].scores)])

InitClassifier == InitCall({[fn |-> "classify", text |-> t] : t \in ClassifierTexts})

NextClassifier == ScoreTypes \/ PickType

\* DocumentClassifier.classify on its own
SpecClassifier == InitClassifier /\ [][NextClassifier]_vars

CallParse ==
    /\ pc = "call"
    /\ arg[1].fn = "parse"
    /\ Return(parse(arg[1].text, arg[1].document_type, arg[1].env))

ParseCalls(texts, envs) ==
    {[fn |-> "parse", text |-> t, document_type |-> "unknown", env |-> e] :
        t \in texts, e \in envs}

InitParser == InitCall(ParseCalls(ParserTexts, {DefaultEnvironment}))

NextParser == CallParse

\* DocumentParser.parse on its own, on texts of amounts
SpecParser == InitParser /\ [][NextParser]_vars

InitParserDate == InitCall(ParseCalls(DateTexts, Environments))

\* DocumentParser.parse on texts of dates
SpecParserDate == InitParserDate /\ [][NextParser]_vars

InitParserNumber == InitCall(ParseCalls(NumberTexts, {DefaultEnvironment}))

\* DocumentParser.parse on texts of document numbers
SpecParserNumber == InitParserNumber /\ [][NextParser]_vars

InitParserVendor == InitCall(ParseCalls(VendorTexts, {DefaultEnvironment}))

\* DocumentParser.parse on texts of lines
SpecParserVendor == InitParserVendor /\ [][NextParser]_vars

(***************************************************************************)
(* Properties.                                                             *)
(***************************************************************************)
Count(q, x) == Cardinality({i \in 1..Len(q) : q[i] = x})

IsPrefix(p, q) == Len(p) <= Len(q) /\ SubSeq(q, 1, Len(p)) = p

\* C1: a recognition result with empty text or confidence below 0.10 ends the
\* request with success=false, the same confidence, type unknown, an empty
\* record, the recognised text and a non-empty error, and neither the
\* classifier nor the field extractor has been invoked; any other result
\* reaches both and ends with success=true.
C1_ConfidenceGate ==
    ocr_result # None =>
        LET o == ocr_result[1]
            low == o.text = "" \/ 10 * o.confidence.num < o.confidence.den
        IN  /\ pc \in {"gate", "classify", "parse", "done"}
            /\ low => /\ pc \in {"gate", "done"}
                      /\ "classify" \notin SeqToSet(calls)
                      /\ "parse" \notin SeqToSet(calls)
            /\ (low /\ pc = "done") =>
                  LET r == response[1]
                  IN  /\ r.status = 200
                      /\ r.success = FALSE
                      /\ r.confidence = o.confidence
                      /\ r.document_type = "unknown"
                      /\ \A f \in {"document_number", "date", "amount", "total_amount",
                                   "tax_amount", "vendor_name", "vendor_address"} :
                            r.extracted_data[f] = None
                      /\ r.extracted_data.line_items = <<>>
                      /\ r.raw_text = o.text
                      /\ r.error # None /\ r.error[1] # ""
            /\ (~low /\ pc = "done") =>
                  /\ Count(calls, "classify") = 1
                  /\ Count(calls, "parse") = 1
                  /\ response[1].status = 200
                  /\ response[1].success = TRUE
                  /\ response[1].confidence = o.confidence
                  /\ response[1].raw_text = o.text

\* a request with recognised text whose confidence is above zero and below 0.10
\* has been answered
C1_Witness ==
    /\ pc = "done"
    /\ ocr_result # None
    /\ ocr_result[1].text # ""
    /\ ocr_result[1].confidence.num > 0
    /\ 10 * ocr_result[1].confidence.num < ocr_result[1].confidence.den
    /\ response[1].success = FALSE

StageOrder ==
    <<"correct_orientation", "resize_image", "preprocess_image",
      "extract_with_confidence", "classify", "parse">>

EngineErrored == engine # None /\ (~engine[1].data.ok \/ ~engine[1].text.ok)

UnderlyingMessage ==
    IF ~engine[1].data.ok THEN engine[1].data.error ELSE engine[1].text.error

\* C2: when the recognition engine errors, the request ends as a failure whose
\* message carries the engine's message, recognition has been attempted once,
\* and neither the gate nor the classifier nor the field extractor has run;
\* the components are always invoked in the order normalise (orientation,
\* resize, enhancement), recognise, classify, extract, and an answered request
\* has either run them all and succeeded, or has stopped at the stage that
\* reported an error (rejection, exception or closed gate) and run nothing after.
C2_FailFast ==
    /\ IsPrefix(calls, StageOrder)
    /\ EngineErrored =>
          /\ pc = "done"
          /\ response[1].status = 500
          /\ Contains(response[1].detail, UnderlyingMessage)
          /\ Count(calls, "extract_with_confidence") = 1
          /\ ocr_result = None
          /\ "classify" \notin SeqToSet(calls)
          /\ "parse" \notin SeqToSet(calls)
    /\ (response # None) = (pc = "done")
    /\ pc = "done" =>
          /\ ~ENABLED Next
          /\ \/ /\ response[1].status = 200
                /\ response[1].success
                /\ response[1].error = None
                /\ calls = StageOrder
             \/ /\ response[1].status = 200
                /\ ~response[1].success
                /\ response[1].error # None
                /\ calls = SubSeq(StageOrder, 1, 4)
             \/ /\ response[1].status # 200
                /\ response[1].detail # ""
                /\ Len(calls) <= 4

\* the engine errored and the request has been answered with a 500
C2_Witness == EngineErrored /\ pc = "done" /\ response[1].status = 500

Priority == <<"invoice", "receipt", "purchase_order", "bill">>

Rank(t) == CHOOSE i \in 1..Len(Priority) : Priority[i] = t

\* C3: classify returns unknown exactly when the four scores are all zero;
\* otherwise it returns a type holding the maximum score, the first such type
\* in the order invoice, receipt, purchase_order, bill.
C3_HighestScoreWins ==
    (pc = "returned" /\ arg[1].fn = "classify") =>
        LET sc == ret[1].scores
            dt == ret[1].document_type
        IN  /\ (dt = "unknown") = (\A t \in SeqToSet(Priority) : sc[t] = 0)
            /\ dt # "unknown" =>
                  /\ dt \in SeqToSet(Priority)
                  /\ \A t \in SeqToSet(Priority) : sc[t] <= sc[dt]
                  /\ \A t \in SeqToSet(Priority) : Rank(t) < Rank(dt) => sc[t] < sc[dt]

\* receipt and purchase_order share the maximum nonzero score, above invoice
C3_Witness ==
    /\ pc = "returned"
    /\ arg[1].fn = "classify"
    /\ ret[1].scores.receipt > 0
    /\ ret[1].scores.receipt = ret[1].scores.purchase_order
    /\ ret[1].scores.invoice < ret[1].scores.receipt
    /\ ret[1].scores.bill <= ret[1].scores.receipt
    /\ ret[1].document_type = "receipt"

RECURSIVE SumOver(_, _)
SumOver(S, f) ==
    IF S = {} THEN 0 ELSE LET x == CHOOSE y \in S : TRUE IN f[x] + SumOver(S \ {x}, f)

\* C4: the aggregate confidence is the mean of the token confidences above
\* zero, divided by 100; the sentinel and zero tokens are in neither the sum
\* nor the count; it is 0 when no token is above zero; it lies in [0,1].
C4_MeanPositiveConfidence ==
    ocr_result # None =>
        LET conf == engine[1].data.value.conf
            c == ocr_result[1].confidence
            P == {i \in 1..Len(conf) : conf[i] > 0}
        IN  /\ c.den > 0
            /\ 0 <= c.num /\ c.num <= c.den
            /\ IF P = {} THEN c.num = 0
               ELSE c.num * (100 * Cardinality(P)) = c.den * SumOver(P, conf)
            /\ ocr_result[1].detailed_data.conf = conf

\* a result whose tokens hold a sentinel or a zero beside a token above zero
C4_Witness ==
    /\ ocr_result # None
    /\ \E i, j \in 1..Len(engine[1].data.value.conf) :
          engine[1].data.value.conf[i] <= 0 /\ engine[1].data.value.conf[j] > 0

IsParseReturn == pc = "returned" /\ arg[1].fn = "parse"

LabeledPatterns ==
    <<Labeled(Word("total")),
      Labeled(Word("grand") \o <<Plus(Space)>> \o Word("total")),
      Labeled(Word("amount") \o <<Plus(Space)>> \o Word("due"))>>

\* the number a labeled pattern yields: that of its leftmost match, if any
Yield(re, text) ==
    LET m == re_search(re, text, TRUE)
    IN  IF m.matched THEN float(replace(m.group, ",", "")) ELSE None

\* C5: total_amount is what the first of the patterns total, grand total,
\* amount due that matches and yields a number gives, and the value of amount
\* when none does; "Total: $1,234.56 Tax: $61.73" gives total_amount 1234.56,
\* tax_amount 61.73 and amount 1234.56.
C5_TotalAmount ==
    IsParseReturn =>
        LET text == arg[1].text
            r == ret[1]
            yielding == {k \in 1..3 : Yield(LabeledPatterns[k], text) # None}
        IN  /\ IF yielding = {} THEN r.total_amount = r.amount
               ELSE LET k == CHOOSE i \in yielding : \A j \in yielding : i <= j
                    IN  r.total_amount = Yield(LabeledPatterns[k], text)
            /\ text = ExampleText =>
                  /\ r.total_amount = Some([mant |-> 123456, scale |-> 2])
                  /\ r.tax_amount = Some([mant |-> 6173, scale |-> 2])
                  /\ r.amount = Some([mant |-> 123456, scale |-> 2])

\* the total pattern matches without yielding a number and a later labeled
\* pattern gives total_amount
C5_Witness ==
    /\ IsParseReturn
    /\ re_search(LabeledPatterns[1], arg[1].text, TRUE).matched
    /\ Yield(LabeledPatterns[1], arg[1].text) = None
    /\ \E k \in 2..3 : Yield(LabeledPatterns[k], arg[1].text) # None
    /\ ret[1].total_amount # None
    /\ ret[1].total_amount # ret[1].amount

\* the values of all the matches of the monetary pattern in the text
MonetaryValues(text) ==
    {float(replace(m, ",", ""))[1] : m \in SeqToSet(re_findall(all_amounts_pattern, text))}

IsMaxOf(v, S) == v \in S /\ \A o \in S : ~FloatLess(v, o)

\* C6 as stated: amount is the maximum of the monetary values found in the
\* text, and is absent exactly when none is found.
C6_AmountIsMaxOfAll ==
    IsParseReturn =>
        LET found == MonetaryValues(arg[1].text)
        IN  /\ (ret[1].amount = None) = (found = {})
            /\ ret[1].amount # None => IsMaxOf(ret[1].amount[1], found)

\* C6, amended: amount is the maximum of the monetary values above zero found
\* in the text, and is absent exactly when no value above zero is found.
C6_AmountIsMaxOfPositive ==
    IsParseReturn =>
        LET found == {v \in MonetaryValues(arg[1].text) : v.mant > 0}
        IN  /\ (ret[1].amount = None) = (found = {})
            /\ ret[1].amount # None => IsMaxOf(ret[1].amount[1], found)

\* a text holding two different values above zero, the larger one the amount
C6_Witness ==
    /\ IsParseReturn
    /\ \E v, w \in MonetaryValues(arg[1].text) :
          v.mant > 0 /\ FloatLess(v, w) /\ ret[1].amount = Some(w)

\* C7: amount, total_amount and tax_amount are each absent or not negative.
C7_MonetaryNonNegative ==
    IsParseReturn =>
        \A f \in {"amount", "total_amount", "tax_amount"} :
            ret[1][f] = None \/ ret[1][f][1].mant >= 0

\* a minus sign stands before the number after a total label, and the
\* largest-value rule gave total_amount
C7_Witness ==
    /\ IsParseReturn
    /\ Contains(arg[1].text, "$-7.50")
    /\ ret[1].total_amount # None
    /\ ret[1].total_amount = ret[1].amount

IsResizeReturn == pc = "returned" /\ arg[1].fn = "resize_image"

\* C8: resize_image returns the image itself when both sides are at most
\* max_dimension; otherwise it returns an image whose longer side is
\* max_dimension and whose shorter side is within one pixel of the
\* proportionally scaled side.
C8_ResizeKeepsProportion ==
    IsResizeReturn =>
        LET img == arg[1].image
            m == arg[1].max_dimension
            long == Max2(img.size[1], img.size[2])
            short == Min2(img.size[1], img.size[2])
            r == ret[1]
        IN  IF long <= m THEN r = Ok(img)
            ELSE /\ r.ok
                 /\ Max2(r.value.size[1], r.value.size[2]) = m
                 /\ (img.size[1] > img.size[2]) => r.value.size[1] = m
                 /\ (img.size[1] <= img.size[2]) => r.value.size[2] = m
                 /\ Abs(Min2(r.value.size[1], r.value.size[2]) * long - short * m) <= long

IsOrientationReturn == pc = "returned" /\ arg[1].fn = "correct_orientation"

\* C9: for bytes that decode, correct_orientation returns the decoded image
\* rotated by 180 degrees for tag 3, 270 for tag 6 and 90 for tag 8, and the
\* decoded image itself for any other tag, for no tag, for no metadata and
\* when reading the metadata fails.
C9_Orientation ==
    (IsOrientationReturn /\ arg[1].image_bytes.decodable) =>
        LET b == arg[1].image_bytes
            decoded == [size |-> b.size, rotation |-> 0]
            turned == [size |-> <<b.size[2], b.size[1]>>, rotation |-> 0]
            tag == IF b.exif.kind = "tags" /\ b.exif.orientation # None
                   THEN b.exif.orientation[1] ELSE 0
        IN  /\ ret[1].ok
            /\ tag = 3 => ret[1].value = [decoded EXCEPT !.rotation = 180]
            /\ tag = 6 => ret[1].value = [turned EXCEPT !.rotation = 270]
            /\ tag = 8 => ret[1].value = [turned EXCEPT !.rotation = 90]
            /\ tag \notin {3, 6, 8} => ret[1].value = decoded

\* the metadata of a decodable upload could not be read
C9_Witness ==
    /\ IsOrientationReturn
    /\ arg[1].image_bytes.decodable
    /\ arg[1].image_bytes.exif.kind = "corrupt"
    /\ ret[1].ok

IsScored == pc \in {"scored", "returned"} /\ arg[1].fn = "classify"

KeywordSets ==
    [invoice |-> INVOICE_KEYWORDS, receipt |-> RECEIPT_KEYWORDS,
     purchase_order |-> PO_KEYWORDS, bill |-> BILL_KEYWORDS]

\* the number of places of the text where the keyword starts
Occurrences(text, keyword) ==
    Cardinality({i \in 1..(Len(text) - Len(keyword) + 1) :
                    SubSeq(text, i, i + Len(keyword) - 1) = keyword})

\* the word, then any run of # and white space, then a digit or a dash
Numbered(text, word) ==
    \E i \in 1..(Len(text) - Len(word) + 1) :
        /\ SubSeq(text, i, i + Len(word) - 1) = word
        /\ \E j \in (i + Len(word))..Len(text) :
              /\ Ch(text, j) \in Digit \cup {"-"}
              /\ \A k \in (i + Len(word))..(j - 1) : Ch(text, k) \in {"#"} \cup Space

\* the word, then any run of white space, then a digit or a dash
NumberedPlain(text, word) ==
    \E i \in 1..(Len(text) - Len(word) + 1) :
        /\ SubSeq(text, i, i + Len(word) - 1) = word
        /\ \E j \in (i + Len(word))..Len(text) :
              /\ Ch(text, j) \in Digit \cup {"-"}
              /\ \A k \in (i + Len(word))..(j - 1) : Ch(text, k) \in Space

Bonus(text, t) ==
    IF \/ t = "invoice" /\ Numbered(text, "inv")
       \/ t = "receipt" /\ Numbered(text, "receipt")
       \/ t = "purchase_order" /\ (Numbered(text, "po") \/ NumberedPlain(text, "p.o."))
       \/ t = "bill" /\ Numbered(text, "bill")
    THEN 2 ELSE 0

RECURSIVE SeqSumOf(_, _, _)
SeqSumOf(q, text, i) ==
    IF i > Len(q) THEN 0 ELSE Occurrences(text, q[i]) + SeqSumOf(q, text, i + 1)

\* C10 as stated: each score is the number of occurrences in the lower-cased
\* text of the keywords of the type, plus 2 when its numbering pattern is found.
C10_ScoreCountsOccurrences ==
    IsScored =>
        \A t \in DOMAIN KeywordSets :
            ret[1].scores[t]
                = SeqSumOf(KeywordSets[t], lower(arg[1].text), 1) + Bonus(lower(arg[1].text), t)

\* C10, amended: each score is the number of keywords of the type that occur
\* in the lower-cased text, each counted once however often it occurs, plus 2
\* when the type's numbering pattern is found.
C10_ScoreCountsKeywords ==
    IsScored =>
        \A t \in DOMAIN KeywordSets :
            ret[1].scores[t]
                = Cardinality({i \in 1..Len(KeywordSets[t]) :
                                  Occurrences(lower(arg[1].text), KeywordSets[t][i]) >= 1})
                  + Bonus(lower(arg[1].text), t)

\* a keyword occurs twice, once in upper case, and has been counted once
C10_Witness ==
    /\ IsScored
    /\ Occurrences(lower(arg[1].text), "invoice") = 2
    /\ Contains(arg[1].text, "INVOICE")
    /\ ret[1].scores.invoice = 1

\* the candidate strings in the order they are tried: the matches of the
\* pattern labeled date in text order, then those of the bare slash/dash
\* pattern, then those of the bare ISO-like pattern
DateCandidates(text) ==
    re_findall(date_patterns[1], text) \o re_findall(date_patterns[2], text)
    \o re_findall(date_patterns[3], text)

\* the calendar date a candidate parses into, None when it does not parse
ParsedCandidate(c, env) == date_parser_parse(replace(c, "/", "-"), env)

AllDigits(s) == \A i \in 1..Len(s) : Ch(s, i) \in Digit

\* s is four digits, a dash, two digits, a dash, two digits
IsYYYYMMDD(s) ==
    /\ Len(s) = 10
    /\ Ch(s, 5) = "-" /\ Ch(s, 8) = "-"
    /\ AllDigits(SubSeq(s, 1, 4)) /\ AllDigits(SubSeq(s, 6, 7)) /\ AllDigits(SubSeq(s, 9, 10))

\* s writes the date d as year-month-day, month and day in two digits
WritesDate(s, d) ==
    LET parts == split(s, "-")
    IN  /\ Len(parts) = 3
        /\ \A i \in 1..3 : parts[i] # "" /\ AllDigits(parts[i])
        /\ Len(parts[2]) = 2 /\ Len(parts[3]) = 2
        /\ DigitsValue(parts[1], 0) = d.year
        /\ DigitsValue(parts[2], 0) = d.month
        /\ DigitsValue(parts[3], 0) = d.day

FirstParsing(cands, env) ==
    CHOOSE i \in 1..Len(cands) :
        /\ ParsedCandidate(cands[i], env) # None
        /\ \A j \in 1..(i - 1) : ParsedCandidate(cands[j], env) = None

NumberPatternOrder ==
    <<NumberPattern(Word("invoice")),
      NumberPattern(Word("inv")),
      NumberPattern(Word("po")),
      NumberPattern(Word("purchase") \o <<Plus(Space)>> \o Word("order")),
      NumberPattern(Word("bill")),
      NumberPattern(Word("receipt")),
      Pattern(Word("number") \o <<Star({":"} \cup Space), Plus(IdentifierChars)>>, 8, 8)>>

\* the leftmost match of the k-th pattern in the upper-cased text
NumberMatch(k, text) == re_search(NumberPatternOrder[k], upper(text), TRUE)

\* C12: document_number is the identifier captured by the first of the seven
\* patterns, in their fixed order, that matches the upper-cased text, wherever
\* the matches of later patterns lie, and is absent exactly when none matches.
C12_FirstPatternWins ==
    IsParseReturn =>
        LET text == arg[1].text
            matching == {k \in 1..7 : NumberMatch(k, text).matched}
        IN  IF matching = {} THEN ret[1].document_number = None
            ELSE LET k == CHOOSE i \in matching : \A j \in matching : i <= j
                 IN  ret[1].document_number = Some(NumberMatch(k, text).group)

\* a later pattern matches earlier in the text than the pattern that gives
\* the document number
C12_Witness ==
    /\ IsParseReturn
    /\ \E i, j \in 1..7 :
          /\ i < j
          /\ NumberMatch(i, arg[1].text).matched /\ NumberMatch(j, arg[1].text).matched
          /\ NumberMatch(j, arg[1].text).start < NumberMatch(i, arg[1].text).start
          /\ NumberMatch(j, arg[1].text).group # NumberMatch(i, arg[1].text).group
          /\ ret[1].document_number = Some(NumberMatch(i, arg[1].text).group)

Punctuation ==
    {"!", "#", "$", "%", "&", "'", "+", ",", "-", ".", "/", ":", ";", "<", "=", ">", "?",
     "@", "_", "|", "~"}

IsPunctuation(c) == c \in Punctuation

CompanySuffixes == {"inc", "ltd", "llc", "corp", "company"}

\* the line holds a company suffix or is upper-case with 5 to 50 characters
LooksLikeVendor(line) ==
    \/ \E w \in CompanySuffixes : Contains(lower(line), w)
    \/ isupper(line) /\ Len(line) \in 5..50

\* the trimmed lines among the first 10 of the text
FirstTenLines(text) ==
    LET all == split(text, "\n")
    IN  [i \in 1..(IF Len(all) < 10 THEN Len(all) ELSE 10) |-> strip(all[i])]

\* the first element of lines that is not skipped and looks like a vendor
FirstVendor(lines, Skipped(_)) ==
    LET taken == {i \in 1..Len(lines) : ~Skipped(lines[i]) /\ LooksLikeVendor(lines[i])}
    IN  IF taken = {} THEN None
        ELSE Some(lines[CHOOSE i \in taken : \A j \in taken : i <= j])

\* skipped as the claim has it: empty, over 99 characters, or digits,
\* punctuation and whitespace only
SkippedAsStated(line) ==
    \/ line = ""
    \/ Len(line) > 99
    \/ \A i \in 1..Len(line) :
          Ch(line, i) \in Digit \cup Space \/ IsPunctuation(Ch(line, i))

\* skipped lines have at most 3 characters, over 99 characters, or digits,
\* whitespace and $ . , : only
SkippedShort(line) ==
    \/ Len(line) <= 3
    \/ Len(line) > 99
    \/ \A i \in 1..Len(line) : Ch(line, i) \in Digit \cup Space \cup {"$", ".", ",", ":"}

\* C13 as stated: vendor_name is the first of the first 10 lines, trimmed,
\* that is not empty, not over 99 characters, not made of digits, punctuation
\* and whitespace only, and that holds a company suffix or is upper-case with
\* 5 to 50 characters; it is absent when no such line is among the first 10.
C13_VendorSkipsEmptyLines ==
    IsParseReturn =>
        ret[1].vendor_name = FirstVendor(FirstTenLines(arg[1].text), SkippedAsStated)

\* C13, amended: vendor_name is the first of the first 10 lines, trimmed, that
\* has more than 3 and fewer than 100 characters, is not made of digits,
\* whitespace and $ . , : only, and that holds a company suffix or is
\* upper-case with 5 to 50 characters; it is absent when no such line is among
\* the first 10, whatever later lines hold.
C13_VendorSkipsShortLines ==
    IsParseReturn =>
        ret[1].vendor_name = FirstVendor(FirstTenLines(arg[1].text), SkippedShort)

\* a line of at most 3 characters holding a company suffix is passed over and
\* a later line is the vendor name
C13_Witness ==
    /\ IsParseReturn
    /\ ret[1].vendor_name # None
    /\ \E i \in 1..Len(FirstTenLines(arg[1].text)) :
          /\ FirstTenLines(arg[1].text)[i] \in CompanySuffixes
          /\ \E j \in (i + 1)..Len(FirstTenLines(arg[1].text)) :
                ret[1].vendor_name = Some(FirstTenLines(arg[1].text)[j])

====
